---- MODULE Spec2Model ----
(***************************************************************************)
(* sync-icons.py: copies SVG icon markup from assets/icons/ into the       *)
(* inline icons of index.html and NavigationSidebar.jsx.                   *)
(*                                                                         *)
(* Text is modelled as a sequence of tokens.  A token is a record          *)
(* [k |-> kind, v |-> value] standing for a fixed piece of text; the       *)
(* regular expressions of the script are evaluated on the tokens they can  *)
(* tell apart:                                                             *)
(*   ws          one whitespace character: " ", "\n" or "\t"                *)
(*   svg16_open  <svg width="16" height="16" + v[1] + >                     *)
(*   svg_open    <svg + v[1] + >      (not beginning width="16" height="16")*)
(*   svg_close   </svg>                                                    *)
(*   mask_dq     <mask id="ID"        mask_sq   <mask id='ID'              *)
(*   elem_dq     <g id="ID"           elem_sq   <g id='ID'                 *)
(*   data_dq     <g data-id="ID"                                           *)
(*   url         url(#ID)                                                  *)
(*   bs          one backslash                                             *)
(*   lit         the text v[1], which holds none of the above              *)
(* An identifier ID is the sequence of its hyphen-separated segments:      *)
(* mask-chat-react is <<"mask", "chat", "react">>.                         *)
(***************************************************************************)
EXTENDS Integers, Sequences, FiniteSets, TLC

Tok(k, v) == [k |-> k, v |-> v]

SP == Tok("ws", <<" ">>)

NL == Tok("ws", <<"\n">>)

TAB == Tok("ws", <<"\t">>)

Lit(s) == Tok("lit", <<s>>)

BS == Tok("bs", <<"\\">>)

Svg16Open(attrs) == Tok("svg16_open", <<attrs>>)

SvgOpen(attrs) == Tok("svg_open", <<attrs>>)

SvgClose == Tok("svg_close", <<"</svg>">>)

MaskDq(id) == Tok("mask_dq", id)

MaskSq(id) == Tok("mask_sq", id)

ElemDq(id) == Tok("elem_dq", id)

ElemSq(id) == Tok("elem_sq", id)

DataDq(id) == Tok("data_dq", id)

Url(id) == Tok("url", id)

Min(S) == CHOOSE x \in S : \A y \in S : x <= y

(***************************************************************************)
(* Configuration                                                           *)
(***************************************************************************)
ICONS_DIR == "assets/icons"

HTML_FILE == "index.html"

REACT_FILE == "NavigationSidebar.jsx"

ICON_MAPPINGS ==
    << [icon_file |-> "home.svg",      mask_ids |-> << <<"mask", "home">> >>],
       [icon_file |-> "search.svg",    mask_ids |-> << <<"mask", "search", "builder">> >>],
       [icon_file |-> "bell.svg",      mask_ids |-> << <<"mask", "bell", "alerts">> >>],
       [icon_file |-> "bookmark.svg",  mask_ids |-> << <<"mask", "bookmark", "saved">> >>],
       [icon_file |-> "star.svg",      mask_ids |-> << <<"mask", "star", "interest">> >>],
       [icon_file |-> "chat.svg",      mask_ids |-> << <<"mask", "chat">>,
                                                       <<"mask", "chat", "react">> >>],
       [icon_file |-> "reports.svg",   mask_ids |-> << <<"mask", "reports">>,
                                                       <<"mask", "reports", "react">> >>],
       [icon_file |-> "newspaper.svg", mask_ids |-> << <<"mask", "newspaper", "newsletters">> >>],
       [icon_file |-> "chart.svg",     mask_ids |-> << <<"mask", "chart", "companies">>,
                                                       <<"mask", "chart", "companies", "react">> >>],
       [icon_file |-> "user-gear.svg", mask_ids |-> << <<"mask", "user", "gear", "admin">> >>] >>

HTML_INDENT == 24

REACT_INDENT == 14

HTML_CLOSING_INDENT == 20

REACT_CLOSING_INDENT == 10

(***************************************************************************)
(* str.strip, str.split('\n'), '\n'.join, ' ' * n                          *)
(***************************************************************************)
IsSpace(t) == t.k = "ws"

NonSpace(s) == {p \in 1..Len(s) : ~IsSpace(s[p])}

Max(S) == CHOOSE x \in S : \A y \in S : x >= y

lstrip(s) == IF NonSpace(s) = {} THEN <<>> ELSE SubSeq(s, Min(NonSpace(s)), Len(s))

rstrip(s) == IF NonSpace(s) = {} THEN <<>> ELSE SubSeq(s, 1, Max(NonSpace(s)))

strip(s) == rstrip(lstrip(s))

RECURSIVE split(_)
split(s) ==
    LET at == {p \in 1..Len(s) : s[p] = NL}
    IN  IF at = {} THEN <<s>>
        ELSE <<SubSeq(s, 1, Min(at) - 1)>> \o split(SubSeq(s, Min(at) + 1, Len(s)))

RECURSIVE join(_)
join(lines) ==
    IF lines = <<>> THEN <<>>
    ELSE IF Len(lines) = 1 THEN lines[1]
    ELSE lines[1] \o <<NL>> \o join(Tail(lines))

Spaces(n) == [p \in 1..n |-> SP]

(***************************************************************************)
(* SVG Content Processing                                                  *)
(***************************************************************************)
\* <svg[^>]*>
IsSvgOpen(t) == t.k \in {"svg16_open", "svg_open"}

\* re.search(r'<svg[^>]*>(.*?)</svg>', svg_content, re.DOTALL)
extract_svg_inner_content(svg_content) ==
    LET n == Len(svg_content)
        starts == {p \in 1..n : /\ IsSvgOpen(svg_content[p])
                                /\ \E q \in (p + 1)..n : svg_content[q] = SvgClose}
    IN  IF starts # {}
        THEN LET p == Min(starts)
                 q == Min({r \in (p + 1)..n : svg_content[r] = SvgClose})
             IN  strip(SubSeq(svg_content, p + 1, q - 1))
        ELSE strip(svg_content)

\* the text id="ID" occurs in these tokens (data-id="ID" ends with it)
HasIdDq(t) == t.k \in {"mask_dq", "elem_dq", "data_dq"}

\* the text id='ID' occurs in these tokens
HasIdSq(t) == t.k \in {"mask_sq", "elem_sq"}

SqToDq(k) == IF k = "mask_sq" THEN "mask_dq" ELSE "elem_dq"

update_mask_id(content, old_mask_id, new_mask_id) ==
    LET c1 == [p \in 1..Len(content) |->
                 IF HasIdDq(content[p]) /\ content[p].v = old_mask_id
                 THEN Tok(content[p].k, new_mask_id) ELSE content[p]]
        c2 == [p \in 1..Len(c1) |->
                 IF HasIdSq(c1[p]) /\ c1[p].v = old_mask_id
                 THEN Tok(SqToDq(c1[p].k), new_mask_id) ELSE c1[p]]
        c3 == [p \in 1..Len(c2) |->
                 IF c2[p].k = "url" /\ c2[p].v = old_mask_id
                 THEN Url(new_mask_id) ELSE c2[p]]
    IN  c3

\* apply_indentation without line.strip()
apply_indentation_unstripped(content, indent_level) ==
    LET lines == split(content)
        kept == SelectSeq(lines, LAMBDA l : strip(l) # <<>>)
        indented_lines == [p \in 1..Len(kept) |-> Spaces(indent_level) \o kept[p]]
    IN  join(indented_lines)

apply_indentation(content, indent_level) ==
    LET lines == split(content)
        stripped == [p \in 1..Len(lines) |-> strip(lines[p])]
        kept == SelectSeq(stripped, LAMBDA l : l # <<>>)
        indented_lines == [p \in 1..Len(kept) |-> Spaces(indent_level) \o kept[p]]
    IN  join(indented_lines)

\* re.sub of one literal pattern that is the whole of a lit token
SubLit(content, from, to) ==
    [p \in 1..Len(content) |-> IF content[p] = Lit(from) THEN Lit(to) ELSE content[p]]

convert_to_jsx_attributes(content) ==
    LET c1 == SubLit(content, "style=\"mask-type:alpha\"", "style={{maskType: 'alpha'}}")
        c2 == SubLit(c1, "stroke-width=\"", "strokeWidth=\"")
        c3 == SubLit(c2, "stroke-linecap=\"", "strokeLinecap=\"")
        c4 == SubLit(c3, "stroke-linejoin=\"", "strokeLinejoin=\"")
    IN  c4

(***************************************************************************)
(* Icon Preparation                                                        *)
(***************************************************************************)
\* the identifier begins with the four letters mask
StartsWithMask(id) == id # <<>> /\ id[1] \in {"mask", "mask0", "mask1"}

\* re.search(r'id="(mask[^"]*)"', inner_content): the positions that match
ExistingMask(inner_content) ==
    {p \in 1..Len(inner_content) :
        HasIdDq(inner_content[p]) /\ StartsWithMask(inner_content[p].v)}

UpdateMaskIdIfPresent(inner_content, mask_id) ==
    IF ExistingMask(inner_content) # {}
    THEN update_mask_id(inner_content,
                        inner_content[Min(ExistingMask(inner_content))].v, mask_id)
    ELSE inner_content

prepare_icon_for_html(svg_content, mask_id) ==
    apply_indentation(
        UpdateMaskIdIfPresent(extract_svg_inner_content(svg_content), mask_id),
        HTML_INDENT)

prepare_icon_for_react(svg_content, mask_id) ==
    apply_indentation(
        convert_to_jsx_attributes(
            UpdateMaskIdIfPresent(extract_svg_inner_content(svg_content), mask_id)),
        REACT_INDENT)

(***************************************************************************)
(* Icon Replacement                                                        *)
(***************************************************************************)
WRAPPER_ATTRS == " viewBox=\"0 0 16 16\" fill=\"none\" xmlns=\"http://www.w3.org/2000/svg\""

FirstNonSpace(content, p) ==
    Min({q \in (p + 1)..Len(content) : ~IsSpace(content[q])} \cup {Len(content) + 1})

\* (<svg width="16" height="16"[^>]*>)\s*<mask id="ID".*?</svg> matches from p
MatchesAt(content, mask_id, p) ==
    /\ content[p].k = "svg16_open"
    /\ LET m == FirstNonSpace(content, p)
       IN  /\ m <= Len(content)
           /\ content[m] = MaskDq(mask_id)
           /\ \E q \in (m + 1)..Len(content) : content[q] = SvgClose

\* the last token of the non-greedy match that starts at p
MatchEnd(content, p) ==
    Min({q \in (FirstNonSpace(content, p) + 1)..Len(content) : content[q] = SvgClose})

\* What follows a backslash in a replacement template (re's parse_template):
\* another backslash, the digit 1 (group 1), another digit, the letter n, a
\* letter that is no escape, or a character that is no letter and no digit.
EscapeClass(t) ==
    CASE t.k = "bs" -> "backslash"
      [] t = Lit("1") -> "group1"
      [] t = Lit("2") -> "digit"
      [] t = Lit("n") -> "newline"
      [] t = Lit("d") -> "letter"
      [] t.k = "url" -> "letter"
      [] t.k = "lit" /\ t.v[1] \in {"stroke-width=\"", "stroke-linecap=\"",
                                    "stroke-linejoin=\"", "style=\"mask-type:alpha\"",
                                    "strokeWidth=\"", "strokeLinecap=\"",
                                    "strokeLinejoin=\"", "style={{maskType: 'alpha'}}"}
           -> "letter"
      [] OTHER -> "other"

\* re.sub's expansion of the replacement template; group1 is the text of (...)
RECURSIVE ExpandTemplate(_, _)
ExpandTemplate(template, group1) ==
    LET at == {p \in 1..Len(template) : template[p] = BS}
    IN  IF at = {} THEN [error |-> FALSE, text |-> template]
        ELSE LET p == Min(at)
                 n == Len(template)
                 before == SubSeq(template, 1, p - 1)
                 c == IF p = n THEN "end" ELSE EscapeClass(template[p + 1])
                 rest == ExpandTemplate(SubSeq(template, p + 2, n), group1)
                 With(escaped) == [error |-> rest.error,
                                   text |-> before \o escaped \o rest.text]
             IN  CASE c = "backslash" -> With(<<BS>>)
                   [] c = "newline" -> With(<<NL>>)
                   [] c = "group1" ->
                        IF p + 2 <= n /\ EscapeClass(template[p + 2]) \in {"group1", "digit"}
                        THEN [error |-> TRUE, text |-> <<>>]
                        ELSE With(<<group1>>)
                   [] c \in {"digit", "letter", "end"} -> [error |-> TRUE, text |-> <<>>]
                   [] OTHER -> With(<<BS, template[p + 1]>>)

NewSvg(new_icon_content, closing_tag_indent) ==
    <<Svg16Open(WRAPPER_ATTRS), NL>> \o new_icon_content
        \o <<NL>> \o closing_tag_indent \o <<SvgClose>>

\* find_and_replace_icon reporting a replacement when there was no match
find_and_replace_icon_always_replaced(content, mask_id, new_icon_content, closing_tag_indent) ==
    LET starts == {p \in 1..Len(content) : MatchesAt(content, mask_id, p)}
    IN  IF starts = {}
        THEN [content |-> content, replaced |-> TRUE, error |-> FALSE]
        ELSE LET p == Min(starts)
                 q == MatchEnd(content, p)
                 new_svg == ExpandTemplate(
                                NewSvg(new_icon_content, closing_tag_indent), content[p])
             IN  IF new_svg.error
                 THEN [content |-> content, replaced |-> FALSE, error |-> TRUE]
                 ELSE [content |-> SubSeq(content, 1, p - 1) \o new_svg.text
                                       \o SubSeq(content, q + 1, Len(content)),
                       replaced |-> TRUE, error |-> FALSE]

\* error: re.sub raised re.error, which nothing catches
find_and_replace_icon(content, mask_id, new_icon_content, closing_tag_indent) ==
    LET starts == {p \in 1..Len(content) : MatchesAt(content, mask_id, p)}
    IN  IF starts = {}
        THEN [content |-> content, replaced |-> FALSE, error |-> FALSE]
        ELSE LET p == Min(starts)
                 q == MatchEnd(content, p)
                 new_svg == ExpandTemplate(
                                NewSvg(new_icon_content, closing_tag_indent), content[p])
             IN  IF new_svg.error
                 THEN [content |-> content, replaced |-> FALSE, error |-> TRUE]
                 ELSE [content |-> SubSeq(content, 1, p - 1) \o new_svg.text
                                       \o SubSeq(content, q + 1, Len(content)),
                       replaced |-> TRUE, error |-> FALSE]

replace_html_icon(html_content, mask_id, new_icon_content) ==
    find_and_replace_icon(html_content, mask_id, new_icon_content,
                          Spaces(HTML_CLOSING_INDENT))

replace_react_icon(react_content, mask_id, new_icon_content) ==
    find_and_replace_icon(react_content, mask_id, new_icon_content,
                          Spaces(REACT_CLOSING_INDENT))

(***************************************************************************)
(* The inputs: the icon files and the two documents found on disk          *)
(***************************************************************************)
MaxPresent == 2

MaxRuns == 2

Home == <<"mask", "home">>

Chat == <<"mask", "chat">>

ChatReact == <<"mask", "chat", "react">>

Reports == <<"mask", "reports">>

ReportsReact == <<"mask", "reports", "react">>

Mask0 == <<"mask0">>

Mask1 == <<"mask1">>

Clip0 == <<"clip0">>

\* an inline icon as the documents hold it
Placeholder(id, attrs) ==
    <<Svg16Open(attrs), NL, SP, SP, MaskDq(id), Lit(">"), Lit("<rect/>"),
      Lit("</mask>"), NL, SP, SvgClose>>

IconMasked ==
    <<Svg16Open(WRAPPER_ATTRS), NL,
      MaskDq(Mask0), SP, Lit("style=\"mask-type:alpha\""), Lit(">"), NL, NL,
      TAB, Lit("<rect/>"), NL,
      Lit("</mask>"), NL,
      SP, Lit("<g mask=\""), Url(Mask0), Lit("\""), SP, Lit("stroke-width=\""),
      Lit(".5\""), SP, Lit("stroke-linecap=\""), Lit("\""), SP,
      Lit("stroke-linejoin=\""), Lit("\""), Lit("/>"), SP, NL,
      SvgClose, NL>>

IconNoMask ==
    <<SvgOpen(" viewBox=\"0 0 24 24\""), NL, SP, ElemDq(Clip0), Lit("/>"), NL,
      SP, Lit("<path clip-path=\""), Url(Clip0), Lit("\""), SP,
      Lit("stroke-width=\""), Lit(".5\""), Lit("/>"), NL, SvgClose>>

IconSingleQuoted ==
    <<Svg16Open(WRAPPER_ATTRS), MaskSq(Mask0), Lit("/>"), Lit("<g mask='"),
      Url(Mask0), Lit("'/>"), SvgClose>>

IconTwoMasks ==
    <<Svg16Open(WRAPPER_ATTRS), MaskDq(Mask0), Lit("/>"), NL, MaskSq(Mask0),
      Lit("/>"), MaskDq(Mask1), Lit("/>"), NL, Lit("<g mask=\""), Url(Mask0),
      Lit("\"/>"), Lit("<g mask=\""), Url(Mask1), Lit("\"/>"), ElemSq(Clip0),
      Lit("/>"), SvgClose>>

\* a backslash before the digit 1
IconGroupRef ==
    <<Svg16Open(WRAPPER_ATTRS), MaskDq(Mask0), Lit("/>"), Lit("<text>"), BS,
      Lit("1"), Lit("</text>"), SvgClose>>

\* a backslash before the letter d
IconBadEscape ==
    <<Svg16Open(WRAPPER_ATTRS), MaskDq(Mask0), Lit("/>"), Lit("<text>"), BS,
      Lit("d"), Lit("</text>"), SvgClose>>

\* no opening <svg> tag: the whole text is the fragment
IconNoWrapper == <<MaskDq(Mask0), Lit("/>"), Lit("<path/>"), SvgClose, NL>>

IconTexts ==
    {IconMasked, IconNoMask, IconSingleQuoted, IconTwoMasks, IconGroupRef,
     IconBadEscape, IconNoWrapper}

IconPool == {"home.svg", "chat.svg", "reports.svg"}

HtmlPlain ==
    <<Lit("<nav>")>> \o Placeholder(Home, " class=\"icon\"") \o <<Lit("<hr>")>>
        \o Placeholder(Chat, "") \o Placeholder(ChatReact, "") \o <<Lit("</nav>")>>

HtmlTwice ==
    Placeholder(Home, "") \o <<Lit("<hr>")>> \o Placeholder(Home, " class=\"second\"")
        \o Placeholder(Reports, "") \o <<NL>>

HtmlNoPlaceholder ==
    <<Lit("<nav>"), SvgOpen(" width=\"24\" height=\"24\""), MaskDq(Home), Lit("/>"),
      SvgClose, Svg16Open(""), Lit("<path/>"), MaskDq(Chat), Lit("/>"), SvgClose,
      Svg16Open(""), NL, MaskSq(Home), Lit("/>"), SvgClose, Svg16Open(""),
      MaskDq(Reports), Lit("/>"), Lit("</nav>")>>

HtmlDocs == {HtmlPlain, HtmlTwice, HtmlNoPlaceholder}

ReactPlain ==
    <<Lit("(")>> \o Placeholder(ChatReact, " className=\"icon\"")
        \o Placeholder(Reports, "") \o Placeholder(ReportsReact, "") \o <<Lit(")")>>

ReactNoPlaceholder == <<Lit("("), Lit("<div/>"), Lit(")")>>

ReactDocs == {ReactPlain, ReactNoPlaceholder}

IconPath(icon_file) == ICONS_DIR \o "/" \o icon_file

DocPaths == {HTML_FILE, REACT_FILE}

IconPaths == {IconPath(ICON_MAPPINGS[n].icon_file) : n \in 1..Len(ICON_MAPPINGS)}

(***************************************************************************)
(* State                                                                   *)
(***************************************************************************)
VARIABLES
    present,          \* the paths that exist
    disk,             \* the text of every file
    pc,               \* where sync_icons is
    result,           \* what sync_icons returned
    html_content, react_content, html_updated, react_updated,
    icon_index,       \* the position of the for loop over ICON_MAPPINGS
    id_index,         \* the position of the for loop over mask_ids
    svg_content, html_changed, react_changed,
    mask_id, prepared_content, replaced,
    trace,            \* the file reads, transformations and file writes so far
    run,              \* how many times sync_icons was started
    disk_before,      \* the files as the current run found them
    disk_initial,     \* the files as the first run found them
    content, indent_level, indented

vars ==
    <<present, disk, pc, result, html_content, react_content, html_updated,
      react_updated, icon_index, id_index, svg_content, html_changed,
      react_changed, mask_id, prepared_content, replaced, trace, run, disk_before,
      disk_initial, content, indent_level, indented>>

fsVars == <<present, disk, disk_initial>>

syncVars == <<html_content, react_content, html_updated, react_updated>>

iconVars == <<svg_content, html_changed, react_changed, id_index>>

idVars == <<mask_id, prepared_content, replaced>>

indentVars == <<content, indent_level, indented>>

Event(op, what) == [op |-> op, what |-> what]

(***************************************************************************)
(* Main Synchronization Logic                                              *)
(***************************************************************************)
path_exists(paths, p) == p \in paths

\* validate_environment without the check of REACT_FILE
validate_environment_without_react(paths) ==
    IF ~path_exists(paths, ICONS_DIR) THEN FALSE
    ELSE IF ~path_exists(paths, HTML_FILE) THEN FALSE
    ELSE TRUE

validate_environment(paths) ==
    IF ~path_exists(paths, ICONS_DIR) THEN FALSE
    ELSE IF ~path_exists(paths, HTML_FILE) THEN FALSE
    ELSE IF ~path_exists(paths, REACT_FILE) THEN FALSE
    ELSE TRUE

\* mask_id.startswith('react-')
is_react_by_prefix(id) == Len(id) >= 2 /\ id[1] = "react"

\* mask_id.endswith('-react')
is_react(id) == Len(id) >= 2 /\ id[Len(id)] = "react"

\* one pass of the body of "for mask_id in mask_ids" of process_icon
process_mask_id(id, svg, html, react, h_changed, r_changed) ==
    IF is_react(id)
    THEN LET prepared == prepare_icon_for_react(svg, id)
             r == replace_react_icon(react, id, prepared)
         IN  [html_content |-> html, react_content |-> r.content,
              html_changed |-> h_changed,
              react_changed |-> IF r.replaced THEN TRUE ELSE r_changed,
              prepared_content |-> prepared, replaced |-> r.replaced,
              error |-> r.error]
    ELSE LET prepared == prepare_icon_for_html(svg, id)
             r == replace_html_icon(html, id, prepared)
         IN  [html_content |-> r.content, react_content |-> react,
              html_changed |-> IF r.replaced THEN TRUE ELSE h_changed,
              react_changed |-> r_changed,
              prepared_content |-> prepared, replaced |-> r.replaced,
              error |-> r.error]

CurrentIcon == ICON_MAPPINGS[icon_index]

\* the for loop of sync_icons moves on, or ends and the writes begin
AfterIcon == IF icon_index = Len(ICON_MAPPINGS) THEN "write_html" ELSE "icons"

InitSync ==
    /\ pc = "start"
    /\ result = "none"
    /\ html_content = <<>> /\ react_content = <<>>
    /\ html_updated = FALSE /\ react_updated = FALSE
    /\ icon_index = 0 /\ id_index = 0
    /\ svg_content = <<>> /\ html_changed = FALSE /\ react_changed = FALSE
    /\ mask_id = <<>> /\ prepared_content = <<>> /\ replaced = FALSE
    /\ trace = <<>>
    /\ run = 1

InitIndentIdle == content = <<>> /\ indent_level = 0 /\ indented = <<>>

\* the files a run can find
Init ==
    /\ \E icons \in SUBSET IconPool :
       \E missing \in SUBSET {ICONS_DIR, HTML_FILE, REACT_FILE} :
       \E texts \in [icons -> IconTexts] :
       \E h \in HtmlDocs :
       \E r \in ReactDocs :
          /\ Cardinality(icons) <= MaxPresent
          /\ ICONS_DIR \in missing => icons = {}
          /\ present = ({ICONS_DIR, HTML_FILE, REACT_FILE} \ missing)
                           \cup {IconPath(f) : f \in icons}
          /\ disk = [p \in DocPaths \cup IconPaths |->
                       IF p = HTML_FILE THEN (IF p \in missing THEN <<>> ELSE h)
                       ELSE IF p = REACT_FILE THEN (IF p \in missing THEN <<>> ELSE r)
                       ELSE IF \E f \in icons : p = IconPath(f)
                            THEN texts[CHOOSE f \in icons : p = IconPath(f)]
                            ELSE <<>>]
    /\ disk_before = disk
    /\ disk_initial = disk
    /\ InitSync
    /\ InitIndentIdle

\* sync_icons, lines 403-405
Validate ==
    /\ pc = "start"
    /\ IF validate_environment(present)
       THEN pc' = "read" /\ UNCHANGED result
       ELSE pc' = "done" /\ result' = "False"
    /\ UNCHANGED <<fsVars, syncVars, icon_index, iconVars, idVars, trace, run,
                   disk_before, indentVars>>

\* sync_icons, lines 407-413
ReadDocuments ==
    /\ pc = "read"
    /\ html_content' = disk[HTML_FILE]
    /\ react_content' = disk[REACT_FILE]
    /\ html_updated' = FALSE
    /\ react_updated' = FALSE
    /\ trace' = trace \o <<Event("read", <<HTML_FILE>>), Event("read", <<REACT_FILE>>)>>
    /\ icon_index' = 1
    /\ pc' = "icons"
    /\ UNCHANGED <<fsVars, result, iconVars, idVars, run, disk_before, indentVars>>

\* a missing icon file ending the run
ProcessIconMissingFatal ==
    /\ pc = "icons"
    /\ ~path_exists(present, IconPath(CurrentIcon.icon_file))
    /\ trace' = Append(trace, Event("skip", <<CurrentIcon.icon_file>>))
    /\ pc' = "done"
    /\ result' = "False"
    /\ UNCHANGED <<fsVars, syncVars, icon_index, iconVars, idVars, run, disk_before,
                   indentVars>>

\* process_icon, lines 351-355, and its return into lines 419-423
ProcessIconMissing ==
    /\ pc = "icons"
    /\ ~path_exists(present, IconPath(CurrentIcon.icon_file))
    /\ html_updated' = (html_updated \/ FALSE)
    /\ react_updated' = (react_updated \/ FALSE)
    /\ UNCHANGED <<html_content, react_content>>
    /\ trace' = Append(trace, Event("skip", <<CurrentIcon.icon_file>>))
    /\ pc' = AfterIcon
    /\ icon_index' = IF AfterIcon = "icons" THEN icon_index + 1 ELSE icon_index
    /\ UNCHANGED <<fsVars, result, iconVars, idVars, run, disk_before, indentVars>>

\* process_icon, lines 357-361
ProcessIconRead ==
    /\ pc = "icons"
    /\ path_exists(present, IconPath(CurrentIcon.icon_file))
    /\ svg_content' = disk[IconPath(CurrentIcon.icon_file)]
    /\ html_changed' = FALSE
    /\ react_changed' = FALSE
    /\ id_index' = 1
    /\ trace' = Append(trace, Event("read", <<CurrentIcon.icon_file>>))
    /\ pc' = "ids"
    /\ UNCHANGED <<fsVars, result, syncVars, icon_index, idVars, run, disk_before,
                   indentVars>>

\* process_icon, lines 363-385
ProcessMaskId ==
    /\ pc = "ids"
    /\ id_index <= Len(CurrentIcon.mask_ids)
    /\ LET id == CurrentIcon.mask_ids[id_index]
           out == process_mask_id(id, svg_content, html_content, react_content,
                                  html_changed, react_changed)
       IN  /\ mask_id' = id
           /\ prepared_content' = out.prepared_content
           /\ IF out.error
              THEN /\ pc' = "crashed"
                   /\ result' = "re.error"
                   /\ replaced' = FALSE
                   /\ trace' = Append(trace, Event("prepare", id))
                   /\ UNCHANGED <<html_content, react_content, html_changed,
                                  react_changed, id_index>>
              ELSE /\ html_content' = out.html_content
                   /\ react_content' = out.react_content
                   /\ html_changed' = out.html_changed
                   /\ react_changed' = out.react_changed
                   /\ replaced' = out.replaced
                   /\ trace' = trace \o <<Event("prepare", id),
                                 Event(IF out.replaced THEN "patch" ELSE "notfound", id)>>
                   /\ id_index' = id_index + 1
                   /\ UNCHANGED <<pc, result>>
    /\ UNCHANGED <<fsVars, html_updated, react_updated, icon_index, svg_content, run,
                   disk_before, indentVars>>

\* the HTML document written as soon as an icon changed it
ProcessIconReturnEagerWrite ==
    /\ pc = "ids"
    /\ id_index > Len(CurrentIcon.mask_ids)
    /\ html_updated' = (html_updated \/ html_changed)
    /\ react_updated' = (react_updated \/ react_changed)
    /\ IF html_changed
       THEN /\ disk' = [disk EXCEPT ![HTML_FILE] = html_content]
            /\ trace' = Append(trace, Event("write", <<HTML_FILE>>))
       ELSE UNCHANGED <<disk, trace>>
    /\ pc' = AfterIcon
    /\ icon_index' = IF AfterIcon = "icons" THEN icon_index + 1 ELSE icon_index
    /\ UNCHANGED <<present, disk_initial, result, html_content, react_content,
                   iconVars, idVars, run, disk_before, indentVars>>

\* process_icon, line 387, and sync_icons, lines 419-423
ProcessIconReturn ==
    /\ pc = "ids"
    /\ id_index > Len(CurrentIcon.mask_ids)
    /\ html_updated' = (html_updated \/ html_changed)
    /\ react_updated' = (react_updated \/ react_changed)
    /\ pc' = AfterIcon
    /\ icon_index' = IF AfterIcon = "icons" THEN icon_index + 1 ELSE icon_index
    /\ UNCHANGED <<fsVars, result, html_content, react_content, iconVars, idVars,
                   trace, run, disk_before, indentVars>>

\* sync_icons, lines 426-430
WriteHtml ==
    /\ pc = "write_html"
    /\ IF html_updated
       THEN /\ disk' = [disk EXCEPT ![HTML_FILE] = html_content]
            /\ trace' = Append(trace, Event("write", <<HTML_FILE>>))
       ELSE UNCHANGED <<disk, trace>>
    /\ pc' = "write_react"
    /\ UNCHANGED <<present, disk_initial, result, syncVars, icon_index, iconVars,
                   idVars, run, disk_before, indentVars>>

\* sync_icons, lines 432-448
WriteReact ==
    /\ pc = "write_react"
    /\ IF react_updated
       THEN /\ disk' = [disk EXCEPT ![REACT_FILE] = react_content]
            /\ trace' = Append(trace, Event("write", <<REACT_FILE>>))
       ELSE UNCHANGED <<disk, trace>>
    /\ result' = IF html_updated \/ react_updated THEN "True" ELSE "False"
    /\ pc' = "done"
    /\ UNCHANGED <<present, disk_initial, syncVars, icon_index, iconVars, idVars,
                   run, disk_before, indentVars>>

Next ==
    \/ Validate
    \/ ReadDocuments
    \/ ProcessIconMissing
    \/ ProcessIconRead
    \/ ProcessMaskId
    \/ ProcessIconReturn
    \/ WriteHtml
    \/ WriteReact

Spec == Init /\ [][Next]_vars

\* the script is started again on the files the run before left
Rerun ==
    /\ pc = "done"
    /\ run < MaxRuns
    /\ run' = run + 1
    /\ disk_before' = disk
    /\ pc' = "start"
    /\ result' = "none"
    /\ html_content' = <<>> /\ react_content' = <<>>
    /\ html_updated' = FALSE /\ react_updated' = FALSE
    /\ icon_index' = 0 /\ id_index' = 0
    /\ svg_content' = <<>> /\ html_changed' = FALSE /\ react_changed' = FALSE
    /\ mask_id' = <<>> /\ prepared_content' = <<>> /\ replaced' = FALSE
    /\ trace' = <<>>
    /\ UNCHANGED <<fsVars, indentVars>>

NextRerun == Next \/ Rerun

SpecRerun == Init /\ [][NextRerun]_vars

(***************************************************************************)
(* apply_indentation on its own: every text of at most MaxLen characters   *)
(***************************************************************************)
MaxLen == 5

MaxIndent == 1

IndentChars == {SP, TAB, NL, Lit("<a/>")}

RECURSIVE TextsUpTo(_, _)
TextsUpTo(chars, n) ==
    IF n = 0 THEN {<<>>}
    ELSE LET shorter == TextsUpTo(chars, n - 1)
         IN  shorter \cup {Append(t, c) : t \in shorter, c \in chars}

IndentLevels == (0..MaxIndent) \cup {REACT_INDENT, HTML_INDENT}

SyncIdle ==
    /\ present = {}
    /\ disk = [p \in DocPaths \cup IconPaths |-> <<>>]
    /\ disk_before = disk
    /\ disk_initial = disk
    /\ result = "none"
    /\ html_content = <<>> /\ react_content = <<>>
    /\ html_updated = FALSE /\ react_updated = FALSE
    /\ icon_index = 0 /\ id_index = 0
    /\ html_changed = FALSE /\ react_changed = FALSE
    /\ replaced = FALSE
    /\ trace = <<>>
    /\ run = 0

InitIndent ==
    /\ content \in TextsUpTo(IndentChars, MaxLen)
    /\ indent_level \in IndentLevels
    /\ indented = <<>>
    /\ pc = "indent"
    /\ svg_content = <<>> /\ mask_id = <<>> /\ prepared_content = <<>>
    /\ SyncIdle

\* indented = apply_indentation(content, indent_level)
ApplyIndentation ==
    /\ pc = "indent"
    /\ indented' = apply_indentation(content, indent_level)
    /\ pc' = "indented"
    /\ UNCHANGED <<fsVars, result, syncVars, icon_index, iconVars, idVars, trace, run,
                   disk_before, content, indent_level>>

\* the result is indented once more
ApplyIndentationAgain ==
    /\ pc = "indented"
    /\ content' = indented
    /\ indented' = apply_indentation(indented, indent_level)
    /\ pc' = "reindented"
    /\ UNCHANGED <<fsVars, result, syncVars, icon_index, iconVars, idVars, trace, run,
                   disk_before, indent_level>>

NextIndent == ApplyIndentation \/ ApplyIndentationAgain

SpecIndent == InitIndent /\ [][NextIndent]_vars

(***************************************************************************)
(* prepare_icon_for_html and prepare_icon_for_react on their own: every    *)
(* icon file <svg>...</svg> with at most MaxFragment pieces inside         *)
(***************************************************************************)
MaxFragment == 3

FragmentPieces ==
    {MaskDq(Mask0), MaskSq(Mask0), MaskDq(Mask1), ElemDq(Clip0), DataDq(Mask0),
     Url(Mask0), Url(Mask1), Url(Clip0), NL, Lit("stroke-width=\"")}

InitPrepare ==
    /\ \E inner \in TextsUpTo(FragmentPieces, MaxFragment) :
          svg_content = <<SvgOpen("")>> \o inner \o <<SvgClose>>
    /\ mask_id \in {Home, ChatReact}
    /\ prepared_content = <<>>
    /\ pc = "prepare"
    /\ InitIndentIdle
    /\ SyncIdle

PrepareForHtml ==
    /\ pc = "prepare"
    /\ ~is_react(mask_id)
    /\ prepared_content' = prepare_icon_for_html(svg_content, mask_id)
    /\ pc' = "prepared"
    /\ UNCHANGED <<fsVars, result, syncVars, icon_index, iconVars, mask_id, replaced,
                   trace, run, disk_before, indentVars>>

PrepareForReact ==
    /\ pc = "prepare"
    /\ is_react(mask_id)
    /\ prepared_content' = prepare_icon_for_react(svg_content, mask_id)
    /\ pc' = "prepared"
    /\ UNCHANGED <<fsVars, result, syncVars, icon_index, iconVars, mask_id, replaced,
                   trace, run, disk_before, indentVars>>

NextPrepare == PrepareForHtml \/ PrepareForReact

SpecPrepare == InitPrepare /\ [][NextPrepare]_vars

(***************************************************************************)
(* Properties                                                              *)
(***************************************************************************)
EndsWithReact(id) == Len(id) >= 2 /\ id[Len(id)] = "react"

\* where doc holds an inline icon of id: the opening tag of a 16 by 16 icon,
\* white space only, the mask element of that id and, later, a closing tag
PlaceholderStarts(doc, id) ==
    {p \in 1..Len(doc) :
        /\ doc[p].k = "svg16_open"
        /\ \E m \in (p + 1)..Len(doc) :
              /\ doc[m] = MaskDq(id)
              /\ \A w \in (p + 1)..(m - 1) : doc[w].k = "ws"
              /\ \E q \in (m + 1)..Len(doc) : doc[q].k = "svg_close"}

HasPlaceholder(doc, id) == PlaceholderStarts(doc, id) # {}

\* the identifier the for loop of process_icon is about to handle
AtMaskId == pc = "ids" /\ id_index <= Len(CurrentIcon.mask_ids)

NextMaskId == CurrentIcon.mask_ids[id_index]

\* the document an identifier belongs to
RoutedDoc(id, html, react) == IF EndsWithReact(id) THEN react ELSE html

Happened(op, what) == \E p \in 1..Len(trace) : trace[p] = Event(op, what)

AllMaskIds ==
    UNION {{ICON_MAPPINGS[n].mask_ids[m] : m \in 1..Len(ICON_MAPPINGS[n].mask_ids)} :
              n \in 1..Len(ICON_MAPPINGS)}

PatchedInto(file) ==
    \E id \in AllMaskIds :
        /\ Happened("patch", id)
        /\ (file = REACT_FILE) = EndsWithReact(id)

RunEnded == pc \in {"done", "crashed"}

\* C1: at the end of a run each document has been written if and only if
\* an identifier routed to it was patched during the run.
C1_WrittenIffPatched ==
    RunEnded =>
        \A file \in DocPaths : Happened("write", <<file>>) <=> PatchedInto(file)

MissingRequired ==
    \/ ICONS_DIR \notin present
    \/ HTML_FILE \notin present
    \/ REACT_FILE \notin present

\* C2: when the icon directory or one of the two documents does not exist, the
\* run reads nothing, processes no icon, writes nothing and returns False.
C2_AbortsBeforeProcessing ==
    MissingRequired =>
        /\ pc \in {"start", "done"}
        /\ pc = "done" => result = "False"
        /\ trace = <<>>
        /\ disk = disk_before
        /\ icon_index = 0
        /\ html_content = <<>> /\ react_content = <<>>

\* C2 happens: only NavigationSidebar.jsx is missing and the run has returned False.
C2_Witness ==
    /\ REACT_FILE \notin present
    /\ ICONS_DIR \in present /\ HTML_FILE \in present
    /\ IconPath("home.svg") \in present
    /\ pc = "done"
    /\ result = "False"

AtMissingIcon ==
    pc = "icons" /\ IconPath(CurrentIcon.icon_file) \notin present

IconVisited(n) ==
    \/ Happened("skip", <<ICON_MAPPINGS[n].icon_file>>)
    \/ Happened("read", <<ICON_MAPPINGS[n].icon_file>>)

HyphenLits ==
    {Lit("stroke-width=\""), Lit("stroke-linecap=\""), Lit("stroke-linejoin=\""),
     Lit("style=\"mask-type:alpha\"")}

CamelLits ==
    {Lit("strokeWidth=\""), Lit("strokeLinecap=\""), Lit("strokeLinejoin=\""),
     Lit("style={{maskType: 'alpha'}}")}

ToCamel(t) ==
    CASE t = Lit("stroke-width=\"") -> Lit("strokeWidth=\"")
      [] t = Lit("stroke-linecap=\"") -> Lit("strokeLinecap=\"")
      [] t = Lit("stroke-linejoin=\"") -> Lit("strokeLinejoin=\"")
      [] t = Lit("style=\"mask-type:alpha\"") -> Lit("style={{maskType: 'alpha'}}")
      [] OTHER -> t

AttrLits(text) == SelectSeq(text, LAMBDA t : t \in HyphenLits \cup CamelLits)

\* C5: an identifier ending in -react leaves the HTML buffer as it is and its
\* fragment has the four attributes in their JSX form; any other identifier
\* leaves the React buffer as it is and its fragment has them as the icon file
\* wrote them.
C5_RoutedToOneDocument ==
    [][AtMaskId =>
          LET source == AttrLits(svg_content)
          IN  IF EndsWithReact(NextMaskId)
              THEN /\ html_content' = html_content
                   /\ html_changed' = html_changed
                   /\ AttrLits(prepared_content')
                        = [p \in 1..Len(source) |-> ToCamel(source[p])]
              ELSE /\ react_content' = react_content
                   /\ react_changed' = react_changed
                   /\ AttrLits(prepared_content') = source]_vars

\* C5 happens: mask-chat went into the HTML buffer with hyphenated attributes and
\* mask-chat-react into the React buffer with JSX attributes, the HTML buffer keeping
\* its own mask-chat-react icon.
C5_Witness ==
    /\ mask_id = ChatReact
    /\ replaced
    /\ Happened("patch", Chat)
    /\ \E p \in 1..Len(react_content) : react_content[p] = Lit("strokeLinejoin=\"")
    /\ \E p \in 1..Len(html_content) : html_content[p] = Lit("stroke-linejoin=\"")
    /\ \A p \in 1..Len(html_content) : html_content[p] \notin CamelLits
    /\ HasPlaceholder(html_content, ChatReact)

\* the id attributes and url references of a text, in their order
IdPieces(text) ==
    SelectSeq(text, LAMBDA t : t.k \in {"mask_dq", "mask_sq", "elem_dq", "elem_sq",
                                         "data_dq", "url"})

\* an id attribute, in either quoting, whose value begins with mask
IsMaskDefinition(t) ==
    t.k \in {"mask_dq", "mask_sq", "elem_dq", "elem_sq"} /\ StartsWithMask(t.v)

\* what the rewriter is to make of one piece, old being the icon's mask identifier
Rewritten(t, old, new) ==
    IF t.v # old THEN t
    ELSE CASE t.k \in {"mask_dq", "mask_sq"} -> MaskDq(new)
           [] t.k \in {"elem_dq", "elem_sq"} -> ElemDq(new)
           [] t.k = "url" -> Url(new)
           [] OTHER -> t

\* C6: when the fragment of an icon holds a mask identifier, the prepared
\* fragment has every id attribute and every url reference of that identifier
\* carrying the target identifier, the attributes double-quoted, and every
\* other id, reference and attribute as it was.
C6_MaskIdRewritten ==
    pc = "prepared" =>
        LET pieces == IdPieces(extract_svg_inner_content(svg_content))
            defs == {p \in 1..Len(pieces) : IsMaskDefinition(pieces[p])}
        IN  defs # {} =>
               IdPieces(prepared_content)
                 = [p \in 1..Len(pieces) |->
                      Rewritten(pieces[p], pieces[Min(defs)].v, mask_id)]

\* the text find_and_replace_icon is to return when doc holds a placeholder of id
Spliced(doc, id, fragment, closing_indent) ==
    LET p == Min(PlaceholderStarts(doc, id))
        m == Min({x \in (p + 1)..Len(doc) : doc[x] = MaskDq(id)})
        q == Min({x \in (m + 1)..Len(doc) : doc[x].k = "svg_close"})
    IN  SubSeq(doc, 1, p - 1)
          \o <<Svg16Open(WRAPPER_ATTRS), NL>> \o fragment \o <<NL>>
          \o [x \in 1..closing_indent |-> SP] \o <<SvgClose>>
          \o SubSeq(doc, q + 1, Len(doc))

\* C7: when the placeholder of an identifier is in its document, the document
\* becomes the text before the leftmost placeholder, the fixed wrapper around
\* the prepared fragment as it is, the closing tag at the indent of the
\* document, and the text after the placeholder.
C7_ExactSplice ==
    [][AtMaskId =>
          /\ (~EndsWithReact(NextMaskId) /\ HasPlaceholder(html_content, NextMaskId))
                => html_content' = Spliced(html_content, NextMaskId, prepared_content',
                                           HTML_CLOSING_INDENT)
          /\ (EndsWithReact(NextMaskId) /\ HasPlaceholder(react_content, NextMaskId))
                => react_content' = Spliced(react_content, NextMaskId, prepared_content',
                                            REACT_CLOSING_INDENT)]_vars

Transforms == {"prepare", "patch", "notfound"}

\* C8: every file read comes before every transformation and every file write
\* after every transformation.
C8_ReadsThenTransformsThenWrites ==
    \A p, q \in 1..Len(trace) :
        p < q =>
           /\ ~(trace[p].op \in Transforms /\ trace[q].op = "read")
           /\ ~(trace[p].op = "write" /\ trace[q].op \in Transforms \cup {"read"})

IconOf(id) ==
    CHOOSE n \in 1..Len(ICON_MAPPINGS) :
        \E m \in 1..Len(ICON_MAPPINGS[n].mask_ids) : ICON_MAPPINGS[n].mask_ids[m] = id

IconNamed(what) ==
    CHOOSE n \in 1..Len(ICON_MAPPINGS) : <<ICON_MAPPINGS[n].icon_file>> = what

\* C8 as amended: the two documents are read before anything else; an icon
\* file is read at most once, before the transformations of its own
\* identifiers and after those of the icons before it; every file write comes
\* after every read and every transformation.
C8_Amended ==
    /\ trace # <<>> =>
          /\ Len(trace) >= 2
          /\ trace[1] = Event("read", <<HTML_FILE>>)
          /\ trace[2] = Event("read", <<REACT_FILE>>)
    /\ \A p, q \in 1..Len(trace) :
          p < q =>
             /\ ~(trace[p].op = "write" /\ trace[q].op \in Transforms \cup {"read", "skip"})
             /\ (trace[p].op = "read" /\ trace[q].op = "read") => trace[p] # trace[q]
             /\ (trace[p].op \in Transforms /\ trace[q].op = "read")
                   => IconOf(trace[p].what) < IconNamed(trace[q].what)
    /\ \A q \in 1..Len(trace) :
          trace[q].op \in Transforms =>
             \E p \in 1..(q - 1) :
                trace[p] = Event("read", <<ICON_MAPPINGS[IconOf(trace[q].what)].icon_file>>)

\* C8 happens: an icon file was read after a patch, and a document written after.
C8_Witness ==
    \E p, q, r \in 1..Len(trace) :
        /\ p < q /\ q < r
        /\ trace[p].op = "patch"
        /\ trace[q].op = "read"
        /\ trace[r].op = "write"

TextLines(text) == IF text = <<>> THEN <<>> ELSE split(text)

\* C9: indenting a text a second time changes nothing, and every line of an
\* indented text is indent_level spaces before the content of a line of the
\* input that is not blank, without the white space around it.
C9_IndentationIdempotent ==
    /\ pc = "reindented" => indented = content
    /\ pc = "indented" =>
          LET lines == TextLines(indented)
              source == SelectSeq(split(content), LAMBDA l : NonSpace(l) # {})
          IN  /\ Len(lines) = Len(source)
              /\ \A p \in 1..Len(lines) :
                    /\ Len(lines[p]) > indent_level
                    /\ \A x \in 1..indent_level : lines[p][x] = SP
                    /\ ~IsSpace(lines[p][indent_level + 1])
                    /\ ~IsSpace(lines[p][Len(lines[p])])
                    /\ SubSeq(lines[p], indent_level + 1, Len(lines[p]))
                         = SubSeq(source[p], Min(NonSpace(source[p])),
                                  Max(NonSpace(source[p])))

\* C9 happens: a text of two lines was indented twice by REACT_INDENT.
C9_Witness ==
    /\ pc = "reindented"
    /\ indent_level = REACT_INDENT
    /\ Len(TextLines(indented)) = 2
    /\ indented = content

OnePlaceholderEach(files) ==
    \A id \in AllMaskIds :
        Cardinality(PlaceholderStarts(RoutedDoc(id, files[HTML_FILE], files[REACT_FILE]),
                                      id)) <= 1

\* C10: when no identifier has two placeholders in its document, a second
\* run leaves both documents as the first run left them.
C10_SecondRunChangesNothing ==
    (pc = "done" /\ run = 2 /\ OnePlaceholderEach(disk_initial)) =>
        /\ disk[HTML_FILE] = disk_before[HTML_FILE]
        /\ disk[REACT_FILE] = disk_before[REACT_FILE]

(***************************************************************************)
(* What holds beside the properties that fail                              *)
(***************************************************************************)
NoBackslash(text) == \A p \in 1..Len(text) : text[p] # BS

\* A run that reaches its end without re.error has written each document if
\* and only if an identifier routed to it was patched.
CompletedRunWritesIffPatched ==
    pc = "done" =>
        \A file \in DocPaths : Happened("write", <<file>>) <=> PatchedInto(file)

\* A run that ends with re.error has written nothing.
CrashedRunWritesNothing == pc = "crashed" => disk = disk_before

\* The splice is exact for an icon file that holds no backslash.
SpliceExactWithoutBackslash ==
    [][(AtMaskId /\ NoBackslash(svg_content)) =>
          /\ (~EndsWithReact(NextMaskId) /\ HasPlaceholder(html_content, NextMaskId))
                => html_content' = Spliced(html_content, NextMaskId, prepared_content',
                                           HTML_CLOSING_INDENT)
          /\ (EndsWithReact(NextMaskId) /\ HasPlaceholder(react_content, NextMaskId))
                => react_content' = Spliced(react_content, NextMaskId, prepared_content',
                                            REACT_CLOSING_INDENT)]_vars

\* The mask identifier is rewritten as described when the icon file holds no
\* single-quoted mask and no data-id attribute.
MaskIdRewrittenWhenDoubleQuoted ==
    (pc = "prepared"
       /\ \A p \in 1..Len(svg_content) : svg_content[p].k \notin {"mask_sq", "data_dq"}) =>
        LET pieces == IdPieces(extract_svg_inner_content(svg_content))
            defs == {p \in 1..Len(pieces) : IsMaskDefinition(pieces[p])}
        IN  defs # {} =>
               IdPieces(prepared_content)
                 = [p \in 1..Len(pieces) |->
                      Rewritten(pieces[p], pieces[Min(defs)].v, mask_id)]

\* A second run changes nothing when no icon file holds a backslash or lacks
\* its opening <svg> tag.
SecondRunChangesNothingForPlainIcons ==
    (/\ pc = "done" /\ run = 2
     /\ OnePlaceholderEach(disk_initial)
     /\ \A f \in IconPaths :
           NoBackslash(disk_initial[f]) /\ disk_initial[f] # IconNoWrapper) =>
        /\ disk[HTML_FILE] = disk_before[HTML_FILE]
        /\ disk[REACT_FILE] = disk_before[REACT_FILE]

====
